---- MODULE Spec2Model ----
(***************************************************************************)
(* World Radio Prefixes (src/src/prefixes/app.py): the CSV -> prefix table *)
(* builder, the JSON export/import, the Redis projection and main().       *)
(*                                                                         *)
(* A Python str is a sequence of one-character tokens ("TAB" and "BOM"     *)
(* stand for U+0009 and U+FEFF).  A Python value that may be None is a     *)
(* tagged record: PyNone, PyInt(n), PyStr(s), PyBool(b).                   *)
(***************************************************************************)
EXTENDS Integers, Sequences, FiniteSets, TLC

VARIABLES
    pc,          \* position of the running function / of main()
    csv_file,    \* the CSV source: [exists, fieldnames, rows]
    fieldnames,  \* reader.fieldnames as handed to _resolve_columns
    cols,        \* the result of _resolve_columns
    rowIdx,      \* index of the next data row of the `for row in reader` loop
    prefix_map,  \* load_prefix_table's prefix_map (a dict: key -> PrefixInfo)
    writes,      \* history: every prefix_map[k] = v assignment, in order
    out,         \* what was printed, as a sequence of message tags
    exc,         \* the exception that left the function, or "none"
    args,        \* main's parsed arguments
    calls,       \* history: the operations main() has called, in order
    json_file,   \* DEFAULT_JSON_PATH: NoFile or the document written there
    prefixes,    \* the raw mapping returned by load_prefixes_json
    sink,        \* CONFIG and the Redis server: "no_host", "down" or "up"
    store,       \* the Redis keyspace: key -> hash
    hset_calls,  \* history: the pipe.hset(key, mapping) calls, in order
    redis_ops    \* history: the commands sent to the Redis client, in order

vars == << pc, csv_file, fieldnames, cols, rowIdx, prefix_map, writes, out, exc,
           args, calls, json_file, prefixes, sink, store, hset_calls, redis_ops >>

(***************************************************************************)
(* Bounds of the model.                                                    *)
(***************************************************************************)
MaxHeaders == 2
MaxRows == 2
MaxEntries == 2

(***************************************************************************)
(* Python values.                                                          *)
(***************************************************************************)
PyNone == [t |-> "None"]
PyInt(n) == [t |-> "int", v |-> n]
PyStr(s) == [t |-> "str", v |-> s]
PyBool(b) == [t |-> "bool", v |-> b]

\* `x or ""` for x a str or None
OrEmpty(x) == IF x = PyNone THEN << >> ELSE x.v

(***************************************************************************)
(* Characters, in code point order.                                        *)
(***************************************************************************)
Digits == << "0", "1", "2", "3", "4", "5", "6", "7", "8", "9" >>
Uppers == << "A", "B", "C", "D", "E", "F", "G", "H", "I", "J", "K", "L", "M",
             "N", "O", "P", "Q", "R", "S", "T", "U", "V", "W", "X", "Y", "Z" >>
Lowers == << "a", "b", "c", "d", "e", "f", "g", "h", "i", "j", "k", "l", "m",
             "n", "o", "p", "q", "r", "s", "t", "u", "v", "w", "x", "y", "z" >>
Alphabet == << "TAB", " ", "+", ",", "-", "." >> \o Digits \o << ":", "?" >>
            \o Uppers \o << "_" >> \o Lowers \o << "BOM" >>

Range(s) == { s[i] : i \in DOMAIN s }
IndexOf(c, s) == CHOOSE i \in DOMAIN s : s[i] = c
CharCode(c) == IndexOf(c, Alphabet)

Whitespace == { " ", "TAB" }
IsDigit(c) == c \in Range(Digits)
UpperChar(c) == IF c \in Range(Lowers) THEN Uppers[IndexOf(c, Lowers)] ELSE c
LowerChar(c) == IF c \in Range(Uppers) THEN Lowers[IndexOf(c, Uppers)] ELSE c

\* str.upper(), str.lower(), str.replace(" ", "_")
Upper(s) == [i \in DOMAIN s |-> UpperChar(s[i])]
Lower(s) == [i \in DOMAIN s |-> LowerChar(s[i])]
SpacesToUnderscores(s) == [i \in DOMAIN s |-> IF s[i] = " " THEN "_" ELSE s[i]]

RECURSIVE LStripSet(_, _)
LStripSet(s, cs) ==
    IF s # << >> /\ Head(s) \in cs THEN LStripSet(Tail(s), cs) ELSE s

RECURSIVE RStripSet(_, _)
RStripSet(s, cs) ==
    IF s # << >> /\ s[Len(s)] \in cs
    THEN RStripSet(SubSeq(s, 1, Len(s) - 1), cs)
    ELSE s

\* str.strip(): leading and trailing whitespace
Strip(s) == RStripSet(LStripSet(s, Whitespace), Whitespace)
\* str.lstrip of U+FEFF
LStripBOM(s) == LStripSet(s, { "BOM" })

\* str.split(","): the pieces between commas; never empty
RECURSIVE SplitComma(_)
SplitComma(s) ==
    IF \A i \in DOMAIN s : s[i] # ","
    THEN << s >>
    ELSE LET i == CHOOSE j \in DOMAIN s :
                      s[j] = "," /\ \A k \in 1 .. (j - 1) : s[k] # ","
         IN << SubSeq(s, 1, i - 1) >> \o SplitComma(SubSeq(s, i + 1, Len(s)))

\* lexicographic order of two strings by code point
RECURSIVE StrLess(_, _)
StrLess(a, b) ==
    IF b = << >> THEN FALSE
    ELSE IF a = << >> THEN TRUE
    ELSE IF Head(a) = Head(b) THEN StrLess(Tail(a), Tail(b))
    ELSE CharCode(Head(a)) < CharCode(Head(b))

(***************************************************************************)
(* _parse_int (app.py 65-72): int(float(value)) of the stripped cell.      *)
(***************************************************************************)
RECURSIVE DigitsToNat(_)
DigitsToNat(s) ==
    IF s = << >> THEN 0
    ELSE 10 * DigitsToNat(SubSeq(s, 1, Len(s) - 1))
         + (IndexOf(s[Len(s)], Digits) - 1)

AllDigits(s) == \A i \in DOMAIN s : IsDigit(s[i])

\* float(text) accepts  [sign] digits [. [digits]]  |  [sign] . digits
\*                    |  [sign] inf  |  [sign] infinity  |  [sign] nan
\* in any case, with surrounding whitespace, and raises ValueError on anything
\* else.  The result keeps what int() needs: the kind, the sign and the
\* integer part.
PyFloatParts(neg, ipart, fpart) ==
    IF AllDigits(ipart) /\ AllDigits(fpart) /\ Len(ipart) + Len(fpart) > 0
    THEN [ok |-> TRUE, kind |-> "finite", neg |-> neg, ipart |-> DigitsToNat(ipart)]
    ELSE [ok |-> FALSE, kind |-> "ValueError", neg |-> FALSE, ipart |-> 0]

\* the place of the first ".", or one past the end
DotIndex(body) ==
    IF \A i \in DOMAIN body : body[i] # "." THEN Len(body) + 1
    ELSE CHOOSE i \in DOMAIN body :
             body[i] = "." /\ \A k \in 1 .. (i - 1) : body[k] # "."

PyFloatNumber(neg, body, dot) ==
    PyFloatParts(neg, SubSeq(body, 1, dot - 1), SubSeq(body, dot + 1, Len(body)))

PyFloatWord(neg, body, word) ==
    IF word \in { << "i", "n", "f" >>, << "i", "n", "f", "i", "n", "i", "t", "y" >> }
    THEN [ok |-> TRUE, kind |-> "inf", neg |-> neg, ipart |-> 0]
    ELSE IF word = << "n", "a", "n" >>
    THEN [ok |-> TRUE, kind |-> "nan", neg |-> neg, ipart |-> 0]
    ELSE PyFloatNumber(neg, body, DotIndex(body))

PyFloatSigned(s) ==
    IF s # << >> /\ Head(s) \in { "+", "-" }
    THEN PyFloatWord(Head(s) = "-", Tail(s), Lower(Tail(s)))
    ELSE PyFloatWord(FALSE, s, Lower(s))

PyFloat(text) == PyFloatSigned(Strip(text))

\* int(f): truncation towards zero; raises on a non-finite float.
PyIntOfFloat(f) ==
    CASE f.kind = "finite" ->
             [raised |-> "none", value |-> IF f.neg THEN 0 - f.ipart ELSE f.ipart]
      [] f.kind = "inf" -> [raised |-> "OverflowError", value |-> 0]
      [] f.kind = "nan" -> [raised |-> "ValueError", value |-> 0]

\* the try/except of _parse_int (app.py 69-72): only ValueError is caught
ParseIntConverted(i) ==
    IF i.raised = "ValueError" THEN [raised |-> "none", result |-> PyNone]
    ELSE IF i.raised # "none" THEN [raised |-> i.raised, result |-> PyNone]
    ELSE [raised |-> "none", result |-> PyInt(i.value)]

ParseIntFloat(f) ==
    IF ~f.ok THEN [raised |-> "none", result |-> PyNone]
    ELSE ParseIntConverted(PyIntOfFloat(f))

ParseIntStripped(s) ==
    IF s = << >> THEN [raised |-> "none", result |-> PyNone]
    ELSE ParseIntFloat(PyFloat(s))

\* _parse_int(value): [raised, result]
ParseInt(value) == ParseIntStripped(Strip(value))

(***************************************************************************)
(* _resolve_columns (app.py 75-101).                                       *)
(***************************************************************************)
NoCol == << "<None>" >>

\* the key under which a physical header is stored in `norm`
NormalizeHeader(name) == SpacesToUnderscores(Lower(Strip(LStripBOM(name))))
\* k.lower().replace(" ", "_") inside col()
NormalizeKey(k) == SpacesToUnderscores(Lower(k))

\* norm[n]: a dict comprehension keeps the last header with that key
NormLookup(fnames, n) ==
    LET hits == { i \in DOMAIN fnames : NormalizeHeader(fnames[i]) = n }
    IN  IF hits = { } THEN NoCol
        ELSE fnames[CHOOSE i \in hits : \A j \in hits : j <= i]

\* col(key, *alts): the header of the first candidate found in norm
RECURSIVE Col(_, _)
Col(fnames, cands) ==
    IF cands = << >> THEN NoCol
    ELSE IF NormLookup(fnames, NormalizeKey(Head(cands))) # NoCol
    THEN NormLookup(fnames, NormalizeKey(Head(cands)))
    ELSE Col(fnames, Tail(cands))

S_prefix == << "p", "r", "e", "f", "i", "x" >>
S_name == << "n", "a", "m", "e" >>
S_dxcc == << "d", "x", "c", "c" >>
S_short_name == << "s", "h", "o", "r", "t", "_", "n", "a", "m", "e" >>
S_short_name_sp == << "s", "h", "o", "r", "t", " ", "n", "a", "m", "e" >>
S_adif_dxcc_code ==
    << "a", "d", "i", "f", "_", "d", "x", "c", "c", "_", "c", "o", "d", "e" >>
S_adif_dxcc_code_sp ==
    << "a", "d", "i", "f", "_", "d", "x", "c", "c", " ", "c", "o", "d", "e" >>
S_adif == << "a", "d", "i", "f" >>
S_country_code ==
    << "c", "o", "u", "n", "t", "r", "y", "_", "c", "o", "d", "e" >>
S_country_code_sp ==
    << "c", "o", "u", "n", "t", "r", "y", " ", "c", "o", "d", "e" >>
S_continent == << "c", "o", "n", "t", "i", "n", "e", "n", "t" >>
S_cq_zones == << "c", "q", "_", "z", "o", "n", "e", "s" >>
S_cq_zones_sp == << "c", "q", " ", "z", "o", "n", "e", "s" >>
S_likely_prefixes ==
    << "l", "i", "k", "e", "l", "y", "_", "p", "r", "e", "f", "i", "x", "e", "s" >>
S_likely_prefixes_sp ==
    << "l", "i", "k", "e", "l", "y", " ", "p", "r", "e", "f", "i", "x", "e", "s" >>
S_prefixes == << "p", "r", "e", "f", "i", "x", "e", "s" >>

\* the candidates col() is called with, per logical column
ColumnCandidates ==
    [ prefix |-> << S_prefix >>,
      name |-> << S_short_name, S_short_name_sp >>,
      dxcc |-> << S_adif_dxcc_code, S_adif_dxcc_code_sp, S_adif >>,
      country_code |-> << S_country_code, S_country_code_sp >>,
      continent |-> << S_continent >>,
      cq_zones |-> << S_cq_zones, S_cq_zones_sp >>,
      likely_prefixes |-> << S_likely_prefixes, S_likely_prefixes_sp, S_prefixes >> ]

LogicalColumns == DOMAIN ColumnCandidates

\* a _resolve_columns whose col() looks up the key only, never the alternatives
ResolveColumnsKeyOnly(fnames) ==
    [ L \in LogicalColumns |-> Col(fnames, << Head(ColumnCandidates[L]) >>) ]

ResolveColumns(fnames) ==
    [ L \in LogicalColumns |-> Col(fnames, ColumnCandidates[L]) ]

(***************************************************************************)
(* The CSV source as csv.DictReader presents it.  Delimiter sniffing and   *)
(* quoting are the csv module's: a file is its header row (fieldnames,     *)
(* << >> when there is none) and its non-blank data rows, each a sequence  *)
(* of cell strings that may be shorter than the header.                    *)
(***************************************************************************)
\* row.get(col): DictReader zips fieldnames with the cells, so the last
\* column of that name decides, and a cell the row lacks is None (restval).
RowGet(fnames, row, col) ==
    LET hits == { i \in DOMAIN fnames : fnames[i] = col }
        last == CHOOSE i \in hits : \A j \in hits : j <= i
    IN  IF hits = { } THEN PyNone
        ELSE IF last <= Len(row) THEN PyStr(row[last])
        ELSE PyNone

\* PrefixInfo(prefix=..., name=..., ...) (app.py 27-36)
PrefixInfo(prefix, name, dxcc, country_code, continent, cq_zones) ==
    [ prefix |-> prefix, name |-> name, dxcc |-> dxcc,
      country_code |-> country_code, continent |-> continent,
      cq_zones |-> cq_zones ]

EmptyDict == << >>

\* a dict assignment that keeps an existing entry (dict.setdefault)
DictSetDefault(d, k, v) ==
    [ x \in (DOMAIN d) \cup { k } |-> IF x \in DOMAIN d THEN d[x] ELSE v ]

\* d[k] = v
DictSet(d, k, v) ==
    [ x \in (DOMAIN d) \cup { k } |-> IF x = k THEN v ELSE d[x] ]

Placeholder == << "?", "?", "?" >>

\* an alias record that keeps the base prefix in its `prefix` field
AliasInfoBasePrefix(pref, base) ==
    base

\* the record stored under an alias (app.py 178-185)
AliasInfo(pref, base) ==
    PrefixInfo(pref, base.name, base.dxcc, base.country_code, base.continent,
               base.cq_zones)

\* st is [map, log]: prefix_map and the history of its assignments.
\* prefix_map[key] = info, on behalf of row r
Insert(st, key, info, r, kind) ==
    [ map |-> DictSet(st.map, key, info),
      log |-> Append(st.log, [ key |-> key, info |-> info, row |-> r, kind |-> kind ]) ]

\* a loop body that skips empty pieces only, not the placeholder
ExpandPieceKeepPlaceholder(st, pref, base, r) ==
    IF pref = << >> THEN st
    ELSE Insert(st, pref, AliasInfo(pref, base), r, "alias")

\* the body of `for raw in likely.split(",")` for pref = raw.strip().upper()
\* (app.py 173-185)
ExpandPiece(st, pref, base, r) ==
    IF pref = << >> \/ pref = Placeholder THEN st
    ELSE Insert(st, pref, AliasInfo(pref, base), r, "alias")

\* for raw in likely.split(","): ... (app.py 172-185), from piece n on
RECURSIVE ExpandLikely(_, _, _, _, _)
ExpandLikely(st, pieces, base, r, n) ==
    IF n > Len(pieces) THEN st
    ELSE ExpandLikely(ExpandPiece(st, Upper(Strip(pieces[n])), base, r),
                      pieces, base, r, n + 1)

\* app.py 170-171: the likely_prefixes cell and its guard
ExpandRow(st, likely, base, r) ==
    IF likely # PyNone /\ Strip(likely.v) # << >>
    THEN ExpandLikely(st, SplitComma(likely.v), base, r, 1)
    ELSE st

\* cq_zones of a raw cell (app.py 155)
CqZonesOf(cq_zones_raw) ==
    IF cq_zones_raw \notin { PyNone, PyStr(<< >>) }
    THEN PyStr(Strip(cq_zones_raw.v))
    ELSE PyNone

\* row.get(col) if col else None
CellOf(c, L, fnames, row) ==
    IF c[L] # NoCol THEN RowGet(fnames, row, c[L]) ELSE PyNone

\* base_prefix of a row (app.py 146)
BasePrefix(c, fnames, row) ==
    Upper(Strip(OrEmpty(RowGet(fnames, row, c.prefix))))

\* app.py 150-155: the fields of a row, dxcc as _parse_int's [raised, result]
RowFields(c, fnames, row) ==
    [ name |-> Strip(OrEmpty(CellOf(c, "name", fnames, row))),
      parsed |-> IF c.dxcc # NoCol
                 THEN ParseInt(OrEmpty(RowGet(fnames, row, c.dxcc)))
                 ELSE [raised |-> "none", result |-> PyNone],
      country_code |-> Lower(Strip(OrEmpty(CellOf(c, "country_code", fnames, row)))),
      continent |-> Upper(Strip(OrEmpty(CellOf(c, "continent", fnames, row)))),
      cq_zones |-> CqZonesOf(CellOf(c, "cq_zones", fnames, row)) ]

\* app.py 157-185: store the base record, then its aliases
InsertRow(st, base_info, likely, r) ==
    ExpandRow(Insert(st, base_info.prefix, base_info, r, "base"), likely,
              base_info, r)

\* app.py 146-185 with the cells read: [raised, map, log]
ProcessFields(st, base_prefix, f, likely, r) ==
    IF base_prefix = << >>
    THEN [ raised |-> "none", map |-> st.map, log |-> st.log ]
    ELSE IF f.parsed.raised # "none"
    THEN [ raised |-> f.parsed.raised, map |-> st.map, log |-> st.log ]
    ELSE [ raised |-> "none" ] @@
         InsertRow(st, PrefixInfo(base_prefix, f.name, f.parsed.result,
                                  f.country_code, f.continent, f.cq_zones),
                   likely, r)

\* One iteration of `for row in reader` (app.py 145-185) on row number r:
\* [raised, map, log].
ProcessRow(st, c, fnames, row, r) ==
    ProcessFields(st, BasePrefix(c, fnames, row), RowFields(c, fnames, row),
                  CellOf(c, "likely_prefixes", fnames, row), r)

\* a header check that lets a source without a prefix column through
BuildFailureNoPrefixCheck(file, c) ==
    IF ~file.exists THEN "ERROR_CSV_NOT_FOUND"
    ELSE IF file.fieldnames = << >> THEN "ERROR_NO_HEADER_ROW"
    ELSE "none"

\* The early returns of load_prefix_table (app.py 113-143): the message
\* printed, or "none" when the rows are read.
BuildFailure(file, c) ==
    IF ~file.exists THEN "ERROR_CSV_NOT_FOUND"
    ELSE IF file.fieldnames = << >> THEN "ERROR_NO_HEADER_ROW"
    ELSE IF c.prefix = NoCol THEN "ERROR_NO_PREFIX_COLUMN"
    ELSE "none"

\* the rest of the row loop after one row's result
RECURSIVE LoadRows(_, _, _, _)
LoadRowsAfter(res, c, file, r) ==
    IF res.raised # "none" THEN res
    ELSE LoadRows([ map |-> res.map, log |-> res.log ], c, file, r + 1)

\* load_prefix_table from row r on (app.py 145-187): [raised, map, log]
LoadRows(st, c, file, r) ==
    IF r > Len(file.rows) THEN [ raised |-> "none", map |-> st.map, log |-> st.log ]
    ELSE LoadRowsAfter(ProcessRow(st, c, file.fieldnames, file.rows[r], r),
                       c, file, r)

LoadResult(msg, res) ==
    IF msg # "none" THEN [ raised |-> "none", map |-> EmptyDict, msg |-> msg ]
    ELSE [ raised |-> res.raised, map |-> res.map, msg |-> "none" ]

LoadResolved(file, c) ==
    LoadResult(BuildFailure(file, c),
               LoadRows([ map |-> EmptyDict, log |-> << >> ], c, file, 1))

\* load_prefix_table(csv_path) as one call: [raised, map, msg]
LoadPrefixTable(file) == LoadResolved(file, ResolveColumns(file.fieldnames))

(***************************************************************************)
(* JSON documents.  A document is the value its text denotes: JNull,       *)
(* JBool, JNumber (the digits as written), JString, JObject (the members   *)
(* in the order written), an array, text that is no JSON at all, or bytes   *)
(* that are no UTF-8 text.                                                 *)
(***************************************************************************)
NoFile == [ j |-> "missing" ]
PyDict(d) == [t |-> "dict", v |-> d]
PyList == [t |-> "list"]

JNull == [ j |-> "null" ]
JBool(b) == [ j |-> "bool", b |-> b ]
JNumber(text) == [ j |-> "number", text |-> text ]
JString(text) == [ j |-> "string", text |-> text ]
JObject(members) == [ j |-> "object", members |-> members ]
JArray == [ j |-> "array" ]
JInvalid == [ j |-> "invalid" ]
JNotUtf8 == [ j |-> "not_utf8" ]

\* str(n) of an int
RECURSIVE NatToStr(_)
NatToStr(n) ==
    IF n < 10 THEN << Digits[n + 1] >>
    ELSE Append(NatToStr(n \div 10), Digits[(n % 10) + 1])

IntToStr(n) == IF n < 0 THEN << "-" >> \o NatToStr(0 - n) ELSE NatToStr(n)

\* int(text) of a JSON integer literal
StrToInt(text) ==
    IF text # << >> /\ Head(text) = "-"
    THEN 0 - DigitsToNat(Tail(text))
    ELSE DigitsToNat(text)

MinStr(S) == CHOOSE x \in S : \A y \in S \ { x } : StrLess(x, y)

\* sorted(S) of a set of strings
RECURSIVE SortStrs(_)
SortStrs(S) ==
    IF S = { } THEN << >> ELSE << MinStr(S) >> \o SortStrs(S \ { MinStr(S) })

\* json.dumps(v, sort_keys=True)
RECURSIVE JsonEncode(_)
JsonMembers(d, keys) ==
    [ i \in DOMAIN keys |-> [ name |-> keys[i], value |-> JsonEncode(d[keys[i]]) ] ]

JsonEncode(v) ==
    CASE v.t = "None" -> JNull
      [] v.t = "bool" -> JBool(v.v)
      [] v.t = "int" -> JNumber(IntToStr(v.v))
      [] v.t = "str" -> JString(v.v)
      [] v.t = "dict" -> JObject(JsonMembers(v.v, SortStrs(DOMAIN v.v)))

\* the value of the last member of that name (json.loads keeps the last)
LastMember(members, name) ==
    members[CHOOSE i \in DOMAIN members :
                /\ members[i].name = name
                /\ \A k \in DOMAIN members : k > i => members[k].name # name].value

\* json.loads of a document that parses
RECURSIVE JsonDecode(_)
JsonDecode(doc) ==
    CASE doc.j = "null" -> PyNone
      [] doc.j = "bool" -> PyBool(doc.b)
      [] doc.j = "number" -> PyInt(StrToInt(doc.text))
      [] doc.j = "string" -> PyStr(doc.text)
      [] doc.j = "array" -> PyList
      [] doc.j = "object" ->
             PyDict([ n \in { doc.members[i].name : i \in DOMAIN doc.members } |->
                        JsonDecode(LastMember(doc.members, n)) ])

\* A dict in iteration order: its items [key, value], each key once, placed
\* where the key was first inserted.
RECURSIVE DictItems(_, _, _)
DictItems(d, members, n) ==
    IF n > Len(members) THEN << >>
    ELSE IF \E k \in 1 .. (n - 1) : members[k].name = members[n].name
    THEN DictItems(d, members, n + 1)
    ELSE << [ key |-> members[n].name, value |-> d[members[n].name] ] >>
         \o DictItems(d, members, n + 1)

(***************************************************************************)
(* export_prefixes_json and load_prefixes_json (app.py 206-248).           *)
(***************************************************************************)
\* a payload entry that writes dxcc as text
PayloadDxccText(info) ==
    (S_name :> PyStr(info.name)) @@ (S_dxcc :> PyStr(IF info.dxcc = PyNone
                                                      THEN << >>
                                                      ELSE IntToStr(info.dxcc.v)))
    @@ (S_country_code :> PyStr(info.country_code))
    @@ (S_continent :> PyStr(info.continent)) @@ (S_cq_zones :> info.cq_zones)

\* one entry of payload (app.py 221-227)
Payload(info) ==
    (S_name :> PyStr(info.name)) @@ (S_dxcc :> info.dxcc)
    @@ (S_country_code :> PyStr(info.country_code))
    @@ (S_continent :> PyStr(info.continent)) @@ (S_cq_zones :> info.cq_zones)

\* the document export_prefixes_json writes (app.py 220-231)
ExportDocument(map) ==
    JsonEncode(PyDict([ k \in DOMAIN map |-> PyDict(Payload(map[k])) ]))

\* what export_prefixes_json prints (app.py 217-218, 232)
ExportMessages(map) ==
    IF map = EmptyDict
    THEN << "WARN_NO_PREFIXES_LOADED", "INFO_EXPORTED" >>
    ELSE << "INFO_EXPORTED" >>

\* load_prefixes_json(json_path): [raised, items, msg].  read_text decodes
\* the bytes before json.loads sees them, and only json.JSONDecodeError is
\* caught (app.py 241, 246)
LoadPrefixesJson(file) ==
    IF file.j = "missing"
    THEN [ raised |-> "none", items |-> << >>, msg |-> "ERROR_JSON_NOT_FOUND" ]
    ELSE IF file.j = "not_utf8"
    THEN [ raised |-> "UnicodeDecodeError", items |-> << >>, msg |-> "none" ]
    ELSE IF file.j = "invalid"
    THEN [ raised |-> "none", items |-> << >>, msg |-> "ERROR_JSON_PARSE" ]
    ELSE IF file.j # "object"
    THEN [ raised |-> "none", items |-> << >>, msg |-> "ERROR_JSON_NOT_OBJECT" ]
    ELSE [ raised |-> "none",
           items |-> DictItems(JsonDecode(file).v, file.members, 1),
           msg |-> "none" ]

(***************************************************************************)
(* The Redis helpers (app.py 256-361).  The client is obtained when        *)
(* CONFIG names a host and the server answers the ping.                    *)
(***************************************************************************)
FlushEvery == 1000

Namespace == << "r", "c", "l", "d", "x", ":", "p", "r", "e", "f", "i", "x", ":" >>

\* f"rcldx:prefix:{prefix}" (app.py 324)
RedisKey(prefix) == Namespace \o prefix

Op(name, arg) == [ op |-> name, arg |-> arg ]

\* _get_redis_client(): [ok, ops, msgs]
GetRedisClient(sinkState) ==
    CASE sinkState = "no_host" ->
             [ ok |-> FALSE, ops |-> << >>,
               msgs |-> << "ERROR_REDIS_HOST_NOT_CONFIGURED" >> ]
      [] sinkState = "down" ->
             [ ok |-> FALSE, ops |-> << Op("ping", { }) >>,
               msgs |-> << "ERROR_REDIS_CONNECT" >> ]
      [] sinkState = "up" ->
             [ ok |-> TRUE, ops |-> << Op("ping", { }) >>,
               msgs |-> << "INFO_REDIS_CONNECTED" >> ]

\* str(v)
PyStrOf(v) ==
    CASE v.t = "None" -> << "N", "o", "n", "e" >>
      [] v.t = "bool" -> IF v.v THEN << "T", "r", "u", "e" >>
                         ELSE << "F", "a", "l", "s", "e" >>
      [] v.t = "int" -> IntToStr(v.v)
      [] v.t = "str" -> v.v

\* a stringification that sends None through str() as well
FieldTextStrOfNone(v) == PyStrOf(v)

\* "" if v is None else str(v) (app.py 325)
FieldText(v) == IF v = PyNone THEN << >> ELSE PyStrOf(v)

\* mapping = {k: ... for k, v in info.items()} (app.py 325)
HashMapping(info) == [ k \in DOMAIN info |-> FieldText(info[k]) ]

\* HSET key field value ...: fields are added to the hash at key
HSet(st, call) ==
    DictSet(st, call.key,
            IF call.key \in DOMAIN st THEN call.mapping @@ st[call.key]
            ELSE call.mapping)

RECURSIVE ApplyAll(_, _)
ApplyAll(st, calls_) ==
    IF calls_ = << >> THEN st ELSE ApplyAll(HSet(st, Head(calls_)), Tail(calls_))

\* pipe.execute(): the buffered commands reach the server
Execute(acc) ==
    [ acc EXCEPT !.store = ApplyAll(acc.store, acc.pending),
                 !.pending = << >>,
                 !.ops = Append(acc.ops, Op("execute", { acc.pending[i].key : i \in DOMAIN acc.pending })) ]

\* pipe.hset(key, mapping=mapping); count += 1; flush every 1000 (app.py 326-329)
Buffered(acc, call) ==
    IF (Len(acc.hsets) + 1) % FlushEvery = 0
    THEN Execute([ acc EXCEPT !.pending = Append(acc.pending, call),
                              !.hsets = Append(acc.hsets, call) ])
    ELSE [ acc EXCEPT !.pending = Append(acc.pending, call),
                      !.hsets = Append(acc.hsets, call) ]

\* the loop of inject_prefixes_into_redis from item n on (app.py 323-331);
\* info.items() raises on an entry that is no dict
RECURSIVE InjectLoop(_, _, _)
InjectLoop(acc, items, n) ==
    IF n > Len(items)
    THEN [ Execute(acc) EXCEPT !.msgs = Append(acc.msgs, "INFO_INJECTED") ]
    ELSE IF items[n].value.t # "dict"
    THEN [ acc EXCEPT !.raised = "AttributeError" ]
    ELSE InjectLoop(Buffered(acc, [ key |-> RedisKey(items[n].key),
                                    mapping |-> HashMapping(items[n].value.v) ]),
                    items, n + 1)

InjectWith(client, items, st) ==
    IF ~client.ok
    THEN [ raised |-> "none", store |-> st, pending |-> << >>, hsets |-> << >>,
           ops |-> client.ops, msgs |-> client.msgs ]
    ELSE InjectLoop([ raised |-> "none", store |-> st, pending |-> << >>,
                      hsets |-> << >>, ops |-> client.ops,
                      msgs |-> Append(client.msgs, "INFO_INJECTING") ],
                    items, 1)

\* an inject without the early return on an empty mapping
InjectAlwaysConnects(items, sinkState, st) ==
    InjectWith(GetRedisClient(sinkState), items, st)

\* inject_prefixes_into_redis(prefixes): [raised, store, pending, hsets, ops, msgs]
Inject(items, sinkState, st) ==
    IF items = << >>
    THEN [ raised |-> "none", store |-> st, pending |-> << >>, hsets |-> << >>,
           ops |-> << >>, msgs |-> << "ERROR_NO_PREFIXES_TO_INJECT" >> ]
    ELSE InjectWith(GetRedisClient(sinkState), items, st)

IsPrefix(p, s) == Len(p) <= Len(s) /\ SubSeq(s, 1, Len(p)) = p

\* a scan whose pattern matches every key
ScanKeysAll(st) == DOMAIN st

\* keys = list(client.scan_iter(match="rcldx:prefix:*")) (app.py 351-355)
ScanKeys(st) == { k \in DOMAIN st : IsPrefix(Namespace, k) }

CleanWith(client, st, keys) ==
    IF ~client.ok
    THEN [ store |-> st, ops |-> client.ops, msgs |-> client.msgs ]
    ELSE IF keys = { }
    THEN [ store |-> st, ops |-> Append(client.ops, Op("scan", { })),
           msgs |-> client.msgs \o << "INFO_SEARCHING", "INFO_NO_KEYS" >> ]
    ELSE [ store |-> [ k \in (DOMAIN st) \ keys |-> st[k] ],
           ops |-> client.ops \o << Op("scan", { }), Op("delete", keys) >>,
           msgs |-> client.msgs \o << "INFO_SEARCHING", "INFO_DELETED" >> ]

\* clean_redis_prefixes(): [store, ops, msgs]
CleanRedisPrefixes(sinkState, st) ==
    CleanWith(GetRedisClient(sinkState), st, ScanKeys(st))

\* clean_local_files(): [file, msg]
CleanLocalFiles(file) ==
    IF file.j # "missing"
    THEN [ file |-> NoFile, msg |-> "INFO_REMOVED_LOCAL_FILE" ]
    ELSE [ file |-> file, msg |-> "INFO_NO_LOCAL_FILE" ]

(***************************************************************************)
(* Physical headers and data rows the sources are drawn from.              *)
(***************************************************************************)
H_BomPrefix ==
    << "BOM", "P", "r", "e", "f", "i", "x" >>
H_Prefix ==
    << "P", "r", "e", "f", "i", "x" >>
H_SpBomPrefix ==
    << " ", "BOM", "P", "r", "e", "f", "i", "x" >>
H_ShortName ==
    << "S", "h", "o", "r", "t", " ", "N", "a", "m", "e" >>
H_short_name ==
    << " ", "s", "h", "o", "r", "t", "_", "n", "a", "m", "e" >>
H_Name ==
    << "N", "a", "m", "e" >>
H_AdifDxccCode ==
    << "A", "D", "I", "F", " ", "D", "X", "C", "C", " ", "C", "o", "d", "e" >>
H_Adif ==
    << "A", "d", "i", "f" >>
H_Dxcc ==
    << "D", "X", "C", "C" >>
H_CountryCode ==
    << "C", "o", "u", "n", "t", "r", "y", " ", "C", "o", "d", "e" >>
H_Continent ==
    << "C", "o", "n", "t", "i", "n", "e", "n", "t" >>
H_CqZones ==
    << "C", "Q", " ", "Z", "o", "n", "e", "s" >>
H_LikelyPrefixes ==
    << "L", "i", "k", "e", "l", "y", " ", "P", "r", "e", "f", "i", "x", "e", "s" >>
H_Prefixes ==
    << "P", "r", "e", "f", "i", "x", "e", "s" >>
Row_EA ==
    << << "E", "A" >>,
       << "S", "p", "a", "i", "n" >>,
       << "2", "8", "1" >>,
       << "e", "s" >>,
       << "E", "U" >>,
       << "1", "4" >>,
       << "E", "A", "1", ",", " ", "E", "A", "2" >> >>
Row_ea1 ==
    << << " ", "e", "a", "1", " " >>,
       << "C", "e", "u", "t", "a" >>,
       <<  >>,
       << "E", "S" >>,
       << "a", "f" >>,
       << " ", " " >>,
       << "?", "?", "?" >> >>
Row_blank ==
    << << " ", " " >>,
       << "G", "h", "o", "s", "t" >>,
       << "i", "n", "f" >>,
       <<  >>,
       <<  >>,
       <<  >>,
       << "E", "A", ",", " ", "Z", "Z" >> >>
Row_F ==
    << << "F" >>,
       << "F", "r", "a", "n", "c", "e" >>,
       << "i", "n", "f" >>,
       << "f", "r" >>,
       << "E", "U" >>,
       << "1", "4" >>,
       <<  >> >>
Row_EA2 ==
    << << "E", "A", "2" >>,
       << "M", "e", "l", "i", "l", "l", "a" >>,
       << "-", "2", ".", "9" >>,
       << "e", "s" >>,
       << "A", "F" >>,
       << "3", "3" >>,
       << "e", "a", ",", ",", "?", "?", "?", " ", ",", "E", "A", "9" >> >>
Row_G ==
    << << "G" >>,
       << "E", "n", "g", "l", "a", "n", "d" >>,
       << "n", "a", "n" >>,
       << "g", "b" >>,
       << "e", "u" >>,
       << " ", "1", "4", " " >>,
       << " ", ",", " " >> >>
Row_ct ==
    << << "c", "t" >>,
       << "P", "o", "r", "t", "u", "g", "a", "l" >>,
       << "a", "b", "c" >> >>

HeaderPool ==
    { H_BomPrefix, H_Prefix, H_SpBomPrefix, H_ShortName, H_short_name, H_Name,
      H_AdifDxccCode, H_Adif, H_Dxcc, H_CountryCode, H_CqZones, H_Prefixes }

RowPool == { Row_EA, Row_ea1, Row_blank, Row_F, Row_EA2, Row_G, Row_ct }

\* the header of the shipped source, one without a prefix column, and one
\* whose name and dxcc columns carry the logical names
HdrFull ==
    << H_BomPrefix, H_ShortName, H_AdifDxccCode, H_CountryCode, H_Continent,
       H_CqZones, H_LikelyPrefixes >>
HdrNoPrefix ==
    << H_SpBomPrefix, H_ShortName, H_Adif, H_CountryCode, H_Continent,
       H_CqZones, H_Prefixes >>
HdrLogical ==
    << H_Prefix, H_Name, H_Dxcc, H_CountryCode, H_Continent, H_CqZones,
       H_Prefixes >>

SeqsUpTo(S, n) == UNION { [1 .. k -> S] : k \in 0 .. n }

MissingCsv == [ exists |-> FALSE, fieldnames |-> << >>, rows |-> << >> ]
EmptyCsv == [ exists |-> TRUE, fieldnames |-> << >>, rows |-> << >> ]

CsvFiles ==
    { MissingCsv, EmptyCsv }
    \cup { [ exists |-> TRUE, fieldnames |-> h, rows |-> rs ] :
             h \in { HdrFull, HdrNoPrefix, HdrLogical },
             rs \in SeqsUpTo(RowPool, MaxRows) }

(***************************************************************************)
(* Values of the variables an operation does not use.                      *)
(***************************************************************************)
NoCols == [ L \in LogicalColumns |-> NoCol ]
NoArgs == [ parsecsv |-> FALSE, injectredis |-> FALSE, clean |-> "none" ]

IdleMain == args = NoArgs /\ calls = << >>
IdleBridge ==
    /\ json_file = NoFile /\ prefixes = EmptyDict /\ sink = "no_host"
    /\ store = EmptyDict /\ hset_calls = << >> /\ redis_ops = << >>

(***************************************************************************)
(* _resolve_columns on its own.                                            *)
(***************************************************************************)
InitResolve ==
    /\ pc = "resolve"
    /\ fieldnames \in SeqsUpTo(HeaderPool, MaxHeaders)
    /\ cols = NoCols
    /\ csv_file = MissingCsv /\ rowIdx = 1 /\ prefix_map = EmptyDict
    /\ writes = << >> /\ out = << >> /\ exc = "none"
    /\ IdleMain /\ IdleBridge

Resolve ==
    /\ pc = "resolve"
    /\ cols' = ResolveColumns(fieldnames)
    /\ pc' = "resolved"
    /\ UNCHANGED << csv_file, fieldnames, rowIdx, prefix_map, writes, out, exc,
                    args, calls, json_file, prefixes, sink, store, hset_calls,
                    redis_ops >>

NextResolve == Resolve

SpecResolve == InitResolve /\ [][NextResolve]_vars

(***************************************************************************)
(* load_prefix_table, one data row per step.                               *)
(***************************************************************************)
InitBuild ==
    /\ pc = "load"
    /\ csv_file \in CsvFiles
    /\ fieldnames = << >> /\ cols = NoCols /\ rowIdx = 1
    /\ prefix_map = EmptyDict /\ writes = << >>
    /\ out = << >> /\ exc = "none"
    /\ IdleMain /\ IdleBridge

LoadOpened(c, msg) ==
    /\ cols' = IF csv_file.exists /\ csv_file.fieldnames # << >> THEN c ELSE NoCols
    /\ out' = IF msg # "none" THEN Append(out, msg) ELSE out
    /\ pc' = IF msg # "none" THEN "returned" ELSE "rows"

LoadOpenWith(c) == LoadOpened(c, BuildFailure(csv_file, c))

\* app.py 111-143: open the source, read the header, resolve the columns
LoadOpen ==
    /\ pc = "load"
    /\ LoadOpenWith(ResolveColumns(csv_file.fieldnames))
    /\ fieldnames' = csv_file.fieldnames
    /\ prefix_map' = EmptyDict
    /\ UNCHANGED << csv_file, rowIdx, writes, exc, args, calls, json_file,
                    prefixes, sink, store, hset_calls, redis_ops >>

LoadRowDone(res) ==
    IF res.raised # "none"
    THEN /\ exc' = res.raised
         /\ pc' = "raised"
         /\ UNCHANGED << prefix_map, writes, rowIdx >>
    ELSE /\ prefix_map' = res.map
         /\ writes' = res.log
         /\ rowIdx' = rowIdx + 1
         /\ UNCHANGED << pc, exc >>

\* app.py 145-185: one iteration of the row loop
LoadRow ==
    /\ pc = "rows"
    /\ rowIdx <= Len(csv_file.rows)
    /\ LoadRowDone(ProcessRow([ map |-> prefix_map, log |-> writes ], cols,
                              fieldnames, csv_file.rows[rowIdx], rowIdx))
    /\ UNCHANGED << csv_file, fieldnames, cols, out, args, calls, json_file,
                    prefixes, sink, store, hset_calls, redis_ops >>

\* app.py 187: return prefix_map
LoadReturn ==
    /\ pc = "rows"
    /\ rowIdx > Len(csv_file.rows)
    /\ pc' = "returned"
    /\ UNCHANGED << csv_file, fieldnames, cols, rowIdx, prefix_map, writes, out,
                    exc, args, calls, json_file, prefixes, sink, store,
                    hset_calls, redis_ops >>

NextBuild == LoadOpen \/ LoadRow \/ LoadReturn

SpecBuild == InitBuild /\ [][NextBuild]_vars

(***************************************************************************)
(* Tables, raw mappings, documents and keyspaces the bridge is run on.     *)
(***************************************************************************)
K_EA == << "E", "A" >>
K_EA1 == << "E", "A", "1" >>
K_F == << "F" >>
T_Spain == << "S", "p", "a", "i", "n" >>
T_14 == << "1", "4" >>
T_null == << "n", "u", "l", "l" >>
F_ok == << "o", "k" >>

KeyPool == { K_EA, K_EA1, K_F }

\* the records a key may carry: the key as prefix, dxcc and cq_zones present
\* or absent
InfoPool(k) ==
    { PrefixInfo(k, n, d[1], << "e", "s" >>, << "E", "U" >>, d[2]) :
        n \in { << >>, T_Spain },
        d \in { << PyNone, PyNone >>, << PyInt(281), PyStr(T_14) >>,
                << PyInt(0 - 2), PyStr(T_null) >> } }

\* every table over at most MaxEntries keys with key = record's prefix
Tables ==
    UNION { { t \in [ K -> UNION { InfoPool(k) : k \in K } ] :
                \A k \in K : t[k].prefix = k } :
            K \in { X \in SUBSET KeyPool : Cardinality(X) <= MaxEntries } }

I_EA ==
    [ key |-> K_EA,
      value |-> PyDict((S_name :> PyStr(T_Spain)) @@ (S_dxcc :> PyInt(281))
                       @@ (S_cq_zones :> PyNone)) ]
I_ea1 ==
    [ key |-> << "e", "a", " ", "1" >>,
      value |-> PyDict((S_name :> PyStr(<< >>)) @@ (S_dxcc :> PyInt(0 - 2))
                       @@ (F_ok :> PyBool(TRUE))) ]
I_F ==
    [ key |-> K_F, value |-> PyDict((S_cq_zones :> PyStr(T_null))) ]
I_number ==
    [ key |-> << "G" >>, value |-> PyInt(1) ]

RawItems == { I_EA, I_ea1, I_F, I_number }

\* the raw mappings of at most MaxEntries items, in every order
RawMappings ==
    { m \in SeqsUpTo(RawItems, MaxEntries) :
        \A i, j \in DOMAIN m : i # j => m[i].key # m[j].key }

\* a document whose entry is no object
D_number == JObject(<< [ name |-> << "G" >>, value |-> JNumber(<< "1" >>) ] >>)

JsonFiles == { NoFile, JInvalid, JNotUtf8, JArray, D_number }

StaleHash == (S_name :> << "O", "l", "d" >>) @@ (F_ok :> << "1" >>)

Stores ==
    { EmptyDict,
      (RedisKey(K_EA) :> StaleHash) @@ (<< "o", "t", "h", "e", "r" >> :> StaleHash) }

\* keys next to the namespace: the namespace itself, the namespace without
\* its last colon, the namespace after another character
NearKeys ==
    { Namespace, SubSeq(Namespace, 1, Len(Namespace) - 1), << "x" >> \o Namespace }

\* the store contents clean_redis_prefixes is called on
CleanStores ==
    { [ k \in K |-> StaleHash ] :
        K \in SUBSET ({ RedisKey(K_EA), << "o", "t", "h", "e", "r" >> } \cup NearKeys) }

Sinks == { "no_host", "down", "up" }

(***************************************************************************)
(* The bridge operations, called one after the other.                      *)
(***************************************************************************)
InitBridge ==
    /\ pc = "idle"
    /\ \/ /\ prefix_map \in Tables
          /\ prefixes = << >> /\ json_file = NoFile
          /\ sink = "up" /\ store = EmptyDict
       \/ /\ prefix_map = EmptyDict
          /\ prefixes \in RawMappings /\ json_file \in JsonFiles
          /\ sink \in Sinks /\ store \in Stores
       \/ /\ prefix_map = EmptyDict
          /\ prefixes = << >> /\ json_file = NoFile
          /\ sink \in Sinks /\ store \in CleanStores
    /\ csv_file = MissingCsv /\ fieldnames = << >> /\ cols = NoCols
    /\ rowIdx = 1 /\ writes = << >>
    /\ out = << >> /\ exc = "none"
    /\ hset_calls = << >> /\ redis_ops = << >>
    /\ IdleMain

\* export_prefixes_json(DEFAULT_JSON_PATH, prefix_map)
ExportJson ==
    /\ pc = "idle"
    /\ json_file' = ExportDocument(prefix_map)
    /\ out' = out \o ExportMessages(prefix_map)
    /\ pc' = "exported"
    /\ UNCHANGED << csv_file, fieldnames, cols, rowIdx, prefix_map, writes, exc,
                    args, calls, prefixes, sink, store, hset_calls, redis_ops >>

LoadJsonDone(res) ==
    IF res.raised # "none"
    THEN /\ exc' = res.raised
         /\ pc' = "load_raised"
         /\ UNCHANGED << prefixes, out >>
    ELSE /\ prefixes' = res.items
         /\ out' = IF res.msg # "none" THEN Append(out, res.msg) ELSE out
         /\ pc' = IF pc = "exported" THEN "reloaded" ELSE "loaded"
         /\ exc' = exc

\* prefixes = load_prefixes_json(DEFAULT_JSON_PATH)
LoadJson ==
    /\ pc \in { "idle", "exported" }
    /\ LoadJsonDone(LoadPrefixesJson(json_file))
    /\ UNCHANGED << csv_file, fieldnames, cols, rowIdx, prefix_map, writes,
                    args, calls, json_file, sink, store, hset_calls, redis_ops >>

InjectDone(res) ==
    /\ store' = res.store
    /\ hset_calls' = hset_calls \o res.hsets
    /\ redis_ops' = redis_ops \o res.ops
    /\ out' = out \o res.msgs
    /\ exc' = res.raised

\* inject_prefixes_into_redis(prefixes)
InjectRedis ==
    /\ pc \in { "idle", "loaded", "reloaded" }
    /\ InjectDone(Inject(prefixes, sink, store))
    /\ pc' = IF Inject(prefixes, sink, store).raised # "none"
             THEN "raised" ELSE "injected"
    /\ UNCHANGED << csv_file, fieldnames, cols, rowIdx, prefix_map, writes,
                    args, calls, json_file, prefixes, sink >>

CleanRedisDone(res) ==
    /\ store' = res.store
    /\ redis_ops' = redis_ops \o res.ops
    /\ out' = out \o res.msgs

\* clean_redis_prefixes(), and once more
CleanRedis ==
    /\ pc \in { "idle", "cleaned" }
    /\ CleanRedisDone(CleanRedisPrefixes(sink, store))
    /\ pc' = IF pc = "idle" THEN "cleaned" ELSE "cleaned_twice"
    /\ UNCHANGED << csv_file, fieldnames, cols, rowIdx, prefix_map, writes, exc,
                    args, calls, json_file, prefixes, sink, hset_calls >>

CleanLocalDone(res) ==
    /\ json_file' = res.file
    /\ out' = Append(out, res.msg)

\* clean_local_files()
CleanLocal ==
    /\ pc = "idle"
    /\ CleanLocalDone(CleanLocalFiles(json_file))
    /\ pc' = "cleaned_local"
    /\ UNCHANGED << csv_file, fieldnames, cols, rowIdx, prefix_map, writes, exc,
                    args, calls, prefixes, sink, store, hset_calls, redis_ops >>

NextBridge == ExportJson \/ LoadJson \/ InjectRedis \/ CleanRedis \/ CleanLocal

SpecBridge == InitBridge /\ [][NextBridge]_vars

(***************************************************************************)
(* main(argv) (app.py 371-424), one requested step at a time.              *)
(***************************************************************************)
ArgSets ==
    [ parsecsv : BOOLEAN, injectredis : BOOLEAN,
      clean : { "none", "local", "redis", "all" } ]

MainCsvFiles ==
    { MissingCsv }
    \cup { [ exists |-> TRUE, fieldnames |-> h, rows |-> rs ] :
             h \in { HdrFull, HdrNoPrefix },
             rs \in SeqsUpTo({ Row_EA, Row_F }, MaxRows) }

\* the documents main may find at DEFAULT_JSON_PATH
MainJsonFiles ==
    { NoFile, JInvalid, JNotUtf8, D_number,
      ExportDocument(K_F :> PrefixInfo(K_F, << >>, PyNone, << >>, << >>, PyNone)) }

InitMain ==
    /\ pc = "main"
    /\ args \in ArgSets
    /\ csv_file \in MainCsvFiles
    /\ json_file \in MainJsonFiles
    /\ sink \in Sinks
    /\ store \in Stores
    /\ fieldnames = << >> /\ cols = NoCols /\ rowIdx = 1
    /\ prefix_map = EmptyDict /\ writes = << >>
    /\ out = << >> /\ exc = "none" /\ calls = << >>
    /\ prefixes = << >> /\ hset_calls = << >> /\ redis_ops = << >>

\* app.py 401-405: without any operation requested, print the usage
MainStart ==
    /\ pc = "main"
    /\ IF ~args.parsecsv /\ ~args.injectredis /\ args.clean = "none"
       THEN out' = Append(out, "USAGE") /\ pc' = "done"
       ELSE out' = out /\ pc' = "clean_local"
    /\ UNCHANGED << csv_file, fieldnames, cols, rowIdx, prefix_map, writes, exc,
                    args, calls, json_file, prefixes, sink, store, hset_calls,
                    redis_ops >>

\* app.py 408-410
MainCleanLocal ==
    /\ pc = "clean_local"
    /\ IF args.clean \in { "local", "all" }
       THEN /\ CleanLocalDone(CleanLocalFiles(json_file))
            /\ calls' = Append(calls, "clean_local")
       ELSE UNCHANGED << json_file, out, calls >>
    /\ pc' = "clean_redis"
    /\ UNCHANGED << csv_file, fieldnames, cols, rowIdx, prefix_map, writes, exc,
                    args, prefixes, sink, store, hset_calls, redis_ops >>

\* app.py 411-412
MainCleanRedis ==
    /\ pc = "clean_redis"
    /\ IF args.clean \in { "redis", "all" }
       THEN /\ CleanRedisDone(CleanRedisPrefixes(sink, store))
            /\ calls' = Append(calls, "clean_redis")
       ELSE UNCHANGED << store, redis_ops, out, calls >>
    /\ pc' = "parsecsv"
    /\ UNCHANGED << csv_file, fieldnames, cols, rowIdx, prefix_map, writes, exc,
                    args, json_file, prefixes, sink, hset_calls >>

\* app.py 416-418 given load_prefix_table's result: an exception leaves main
\* before export_prefixes_json is called
MainBuilt(res) ==
    IF res.raised # "none"
    THEN /\ exc' = res.raised
         /\ pc' = "raised"
         /\ calls' = Append(calls, "build")
         /\ out' = Append(out, "INFO_PARSING_CSV")
         /\ UNCHANGED << prefix_map, json_file >>
    ELSE /\ prefix_map' = res.map
         /\ json_file' = ExportDocument(res.map)
         /\ calls' = calls \o << "build", "export" >>
         /\ out' = out \o << "INFO_PARSING_CSV" >>
                       \o (IF res.msg # "none" THEN << res.msg >> ELSE << >>)
                       \o ExportMessages(res.map)
         /\ pc' = "injectredis"
         /\ exc' = exc

\* app.py 415-418
MainParseCsv ==
    /\ pc = "parsecsv"
    /\ IF args.parsecsv
       THEN MainBuilt(LoadPrefixTable(csv_file))
       ELSE /\ pc' = "injectredis"
            /\ UNCHANGED << prefix_map, json_file, calls, out, exc >>
    /\ UNCHANGED << csv_file, fieldnames, cols, rowIdx, writes, args, prefixes,
                    sink, store, hset_calls, redis_ops >>

\* app.py 423-424 given load_prefixes_json's result
MainPushed(loaded, res) ==
    /\ prefixes' = loaded.items
    /\ store' = res.store
    /\ hset_calls' = hset_calls \o res.hsets
    /\ redis_ops' = redis_ops \o res.ops
    /\ out' = out \o << "INFO_LOADING_JSON" >>
                  \o (IF loaded.msg # "none" THEN << loaded.msg >> ELSE << >>)
                  \o res.msgs
    /\ exc' = res.raised
    /\ pc' = IF res.raised # "none" THEN "raised" ELSE "done"
    /\ calls' = calls \o << "import", "push" >>

\* app.py 423: an exception of load_prefixes_json leaves main before
\* inject_prefixes_into_redis is called
MainImported(loaded) ==
    IF loaded.raised # "none"
    THEN /\ exc' = loaded.raised
         /\ pc' = "raised"
         /\ calls' = Append(calls, "import")
         /\ out' = Append(out, "INFO_LOADING_JSON")
         /\ UNCHANGED << prefixes, store, hset_calls, redis_ops >>
    ELSE MainPushed(loaded, Inject(loaded.items, sink, store))

\* app.py 421-424
MainInject ==
    /\ pc = "injectredis"
    /\ IF args.injectredis
       THEN MainImported(LoadPrefixesJson(json_file))
       ELSE /\ pc' = "done"
            /\ UNCHANGED << prefixes, store, hset_calls, redis_ops, out, exc, calls >>
    /\ UNCHANGED << csv_file, fieldnames, cols, rowIdx, prefix_map, writes, args,
                    json_file, sink >>

NextMain ==
    MainStart \/ MainCleanLocal \/ MainCleanRedis \/ MainParseCsv \/ MainInject

SpecMain == InitMain /\ [][NextMain]_vars

(***************************************************************************)
(* Properties of the table builder (checked under SpecBuild).              *)
(***************************************************************************)
\* the trimmed prefix cell of data row r
TrimmedPrefix(r) ==
    Strip(OrEmpty(RowGet(csv_file.fieldnames, csv_file.rows[r], cols.prefix)))

\* the likely_prefixes cell of data row r (None without such a column)
LikelyCell(r) ==
    CellOf(cols, "likely_prefixes", csv_file.fieldnames, csv_file.rows[r])

\* the pieces of a cell after trim and uppercase
Pieces(cell) == { Upper(Strip(p)) : p \in Range(SplitComma(cell)) }

\* the alias keys a likely_prefixes cell stands for
ExpectedAliases(likely) ==
    IF likely # PyNone /\ Strip(likely.v) # << >>
    THEN Pieces(likely.v) \ { << >>, Placeholder }
    ELSE { }

SameFields(a, b) ==
    /\ a.name = b.name /\ a.dxcc = b.dxcc /\ a.country_code = b.country_code
    /\ a.continent = b.continent /\ a.cq_zones = b.cq_zones

KeysWrittenBy(r) == { writes[i].key : i \in { j \in DOMAIN writes : writes[j].row = r } }

\* C1: every key of the table equals the `prefix` field of its record and is
\* a non-empty, trimmed, uppercase string; and no row whose trimmed prefix is
\* empty has written any key, base or alias.
C1_KeyEqualsPrefix ==
    /\ \A k \in DOMAIN prefix_map :
           /\ prefix_map[k].prefix = k
           /\ k # << >>
           /\ Strip(k) = k
           /\ Upper(k) = k
    /\ \A i \in DOMAIN writes : TrimmedPrefix(writes[i].row) # << >>

\* a table with aliases was returned from a source that also held a row with
\* a blank prefix and a populated likely_prefixes cell
C1_Witness ==
    /\ pc = "returned"
    /\ Cardinality(DOMAIN prefix_map) >= 3
    /\ \E r \in DOMAIN csv_file.rows :
           TrimmedPrefix(r) = << >> /\ ExpectedAliases(LikelyCell(r)) # { }

C2_RowExpanded(r, P, expected) ==
    P # << >> =>
        /\ KeysWrittenBy(r) = { P } \cup expected
        /\ ({ P } \cup expected) \subseteq DOMAIN prefix_map
        /\ \A a \in expected :
               /\ prefix_map[a].prefix = a
               /\ SameFields(prefix_map[a], prefix_map[P])

\* C2: once a row with non-empty prefix P has been processed, the table holds
\* P and every comma-separated piece of its likely_prefixes cell (trimmed,
\* uppercased, minus empty pieces and "???"), each alias with the fields of
\* the base entry; the row has written no other key, so an empty cell or
\* "???" alone adds nothing beyond P.
C2_AliasExpansion ==
    (pc \in { "rows", "returned" } /\ rowIdx > 1) =>
        C2_RowExpanded(rowIdx - 1, Upper(TrimmedPrefix(rowIdx - 1)),
                       ExpectedAliases(LikelyCell(rowIdx - 1)))

\* the row just processed had two aliases besides an empty piece and "???"
C2_Witness ==
    /\ pc \in { "rows", "returned" } /\ rowIdx > 1
    /\ TrimmedPrefix(rowIdx - 1) # << >>
    /\ Cardinality(ExpectedAliases(LikelyCell(rowIdx - 1))) >= 2
    /\ { << >>, Placeholder } \subseteq Pieces(LikelyCell(rowIdx - 1).v)
    /\ Cardinality(KeysWrittenBy(rowIdx - 1)) = 3

LastWriteTo(k) ==
    writes[CHOOSE i \in DOMAIN writes :
               writes[i].key = k /\ \A j \in DOMAIN writes : j > i => writes[j].key # k]

\* C3: the writes happen in row order, base prefix before aliases, and the
\* table holds under every key the record of the last write to that key.
C3_LastWriteWins ==
    /\ DOMAIN prefix_map = { writes[i].key : i \in DOMAIN writes }
    /\ \A k \in DOMAIN prefix_map : prefix_map[k] = LastWriteTo(k).info
    /\ \A i, j \in DOMAIN writes :
           i < j => /\ writes[i].row <= writes[j].row
                    /\ (writes[i].row = writes[j].row => writes[j].kind = "alias")

\* a later row's write has replaced an earlier row's entry of the other kind
\* (an alias over a base entry, or a base entry over an alias)
C3_Witness ==
    /\ pc = "returned"
    /\ \E i, j \in DOMAIN writes :
           /\ i < j /\ writes[i].key = writes[j].key
           /\ writes[i].row < writes[j].row
           /\ writes[i].kind # writes[j].kind
           /\ writes[i].info.name # writes[j].info.name
           /\ prefix_map[writes[j].key].name = writes[j].info.name

\* C5: dxcc parsing never raises, whatever the cell holds, and the row loop
\* goes on with the following rows.
C5_ParseNeverRaises ==
    pc # "raised" /\ exc = "none"

BuildMustFail ==
    \/ ~csv_file.exists
    \/ csv_file.fieldnames = << >>
    \/ \A i \in DOMAIN csv_file.fieldnames :
           NormalizeHeader(csv_file.fieldnames[i]) # S_prefix

\* C6: with the source missing, without a header row or without a header
\* that resolves to `prefix`, load_prefix_table returns an empty table with
\* one error message, raises nothing and processes no data row.
C6_BuildFailures ==
    BuildMustFail =>
        /\ pc \in { "load", "returned" }
        /\ exc = "none"
        /\ rowIdx = 1 /\ writes = << >> /\ prefix_map = EmptyDict
        /\ pc = "returned" =>
               /\ Len(out) = 1
               /\ out[1] = (IF ~csv_file.exists THEN "ERROR_CSV_NOT_FOUND"
                            ELSE IF csv_file.fieldnames = << >>
                            THEN "ERROR_NO_HEADER_ROW"
                            ELSE "ERROR_NO_PREFIX_COLUMN")

\* a source with data rows and other resolvable columns, but no prefix column
C6_Witness ==
    /\ pc = "returned"
    /\ csv_file.exists /\ Len(csv_file.rows) = MaxRows
    /\ cols.prefix = NoCol /\ cols.likely_prefixes # NoCol /\ cols.dxcc # NoCol
    /\ out = << "ERROR_NO_PREFIX_COLUMN" >>
    /\ prefix_map = EmptyDict

(***************************************************************************)
(* Properties of _resolve_columns (checked under SpecResolve).             *)
(***************************************************************************)
\* the normalised headers each logical column accepts
AcceptedHeaders ==
    [ prefix |-> { S_prefix },
      name |-> { S_short_name },
      dxcc |-> { S_adif_dxcc_code, S_adif },
      country_code |-> { S_country_code },
      continent |-> { S_continent },
      cq_zones |-> { S_cq_zones },
      likely_prefixes |-> { S_likely_prefixes, S_prefixes } ]

\* the same, with the logical names of `name` and `dxcc` accepted as well
AcceptedWithLogicalNames ==
    [ AcceptedHeaders EXCEPT !.name = @ \cup { S_name },
                             !.dxcc = @ \cup { S_dxcc } ]

\* every logical column resolves to a physical header whose normal form is
\* accepted for it, and to none when there is no such header
ResolvesBy(accepted) ==
    \A L \in LogicalColumns :
        IF \E i \in DOMAIN fieldnames : NormalizeHeader(fieldnames[i]) \in accepted[L]
        THEN /\ cols[L] \in Range(fieldnames)
             /\ NormalizeHeader(cols[L]) \in accepted[L]
        ELSE cols[L] = NoCol

\* C4 as stated: `name` resolves for a header that normalises to "name" or
\* "short_name", `dxcc` for "dxcc", "adif_dxcc_code" or "adif".
C4_ResolvesLogicalNames ==
    pc = "resolved" => ResolvesBy(AcceptedWithLogicalNames)

\* C4 as amended: `name` resolves only for "short_name", `dxcc` only for
\* "adif_dxcc_code" or "adif"; the other columns for their own name (and
\* likely_prefixes for "prefixes" too).
C4_ResolvesAcceptedHeaders ==
    pc = "resolved" => ResolvesBy(AcceptedHeaders)

\* a header "Name" beside an "Adif" header: dxcc resolved, name not
C4_Witness ==
    /\ pc = "resolved"
    /\ \E i \in DOMAIN fieldnames : NormalizeHeader(fieldnames[i]) = S_name
    /\ cols.name = NoCol
    /\ cols.dxcc = H_Adif

(***************************************************************************)
(* Properties of the serialization bridge (checked under SpecBridge).      *)
(***************************************************************************)
PayloadFields == { S_name, S_dxcc, S_country_code, S_continent, S_cq_zones }

\* the record an imported entry gives when keyed with its key
Rekeyed(k, d) ==
    PrefixInfo(k, d[S_name].v, d[S_dxcc], d[S_country_code].v, d[S_continent].v,
               d[S_cq_zones])

C7_EntryMatches(k, value) ==
    /\ value.t = "dict"
    /\ DOMAIN value.v = PayloadFields
    /\ value.v[S_name] = PyStr(prefix_map[k].name)
    /\ value.v[S_dxcc] = prefix_map[k].dxcc
    /\ value.v[S_country_code] = PyStr(prefix_map[k].country_code)
    /\ value.v[S_continent] = PyStr(prefix_map[k].continent)
    /\ value.v[S_cq_zones] = prefix_map[k].cq_zones
    /\ Rekeyed(k, value.v) = prefix_map[k]

\* C7: importing the document export wrote gives exactly the table's keys,
\* each with the record's name, dxcc, country_code, continent and cq_zones
\* (an integer the same integer, an absent field absent), so that re-keying
\* every entry reproduces the table.
C7_RoundTrip ==
    pc = "reloaded" =>
        /\ { prefixes[i].key : i \in DOMAIN prefixes } = DOMAIN prefix_map
        /\ Len(prefixes) = Cardinality(DOMAIN prefix_map)
        /\ \A i \in DOMAIN prefixes :
               /\ prefixes[i].key \in DOMAIN prefix_map
               /\ C7_EntryMatches(prefixes[i].key, prefixes[i].value)

\* a table with a negative dxcc, an absent dxcc and an absent cq_zones, and
\* a cq_zones that reads "null", went through export and import
C7_Witness ==
    /\ pc = "reloaded"
    /\ \E k1, k2 \in DOMAIN prefix_map :
           /\ prefix_map[k1].dxcc = PyInt(0 - 2)
           /\ prefix_map[k1].cq_zones = PyStr(T_null)
           /\ prefix_map[k2].dxcc = PyNone
           /\ prefix_map[k2].cq_zones = PyNone

AllFieldMaps(items) == \A i \in DOMAIN items : items[i].value.t = "dict"

C8_CallMatches(call, item) ==
    /\ call.key = Namespace \o item.key
    /\ DOMAIN call.mapping = DOMAIN item.value.v
    /\ \A f \in DOMAIN call.mapping :
           /\ item.value.v[f] = PyNone => call.mapping[f] = << >>
           /\ item.value.v[f] # PyNone => call.mapping[f] = PyStrOf(item.value.v[f])
    /\ item = I_EA => /\ call.mapping[S_dxcc] = << "2", "8", "1" >>
                      /\ call.mapping[S_cq_zones] = << >>
    /\ call.key \in DOMAIN store

\* C8: for a non-empty mapping of field maps and an available sink, one hash
\* write per entry, at "rcldx:prefix:" followed by the entry's key as it is,
\* with the entry's field names and every value a string: "" for None, the
\* text of the value otherwise.
C8_BulkStoreProjection ==
    (/\ pc \in { "injected", "raised" }
     /\ prefixes # << >> /\ sink = "up" /\ AllFieldMaps(prefixes)) =>
        /\ pc = "injected" /\ exc = "none"
        /\ Len(hset_calls) = Len(prefixes)
        /\ \A i \in DOMAIN hset_calls : C8_CallMatches(hset_calls[i], prefixes[i])

\* two entries, one with a None and an integer, one with a key that is not
\* upper case, were pushed
C8_Witness ==
    /\ pc = "injected" /\ sink = "up"
    /\ Len(prefixes) = 2 /\ Len(hset_calls) = 2
    /\ \E i, j \in DOMAIN prefixes : prefixes[i] = I_EA /\ prefixes[j] = I_ea1

C9_ExportOfNothing ==
    (pc \in { "exported", "reloaded" } /\ prefix_map = EmptyDict) =>
        /\ json_file = JObject(<< >>)
        /\ out[1] = "WARN_NO_PREFIXES_LOADED"

\* C9 as stated: export of zero records writes the empty object with a
\* warning, and a bulk push of zero records goes on to the sink and
\* completes having written nothing, without being reported as an error.
C9_EmptyInputProceeds ==
    /\ C9_ExportOfNothing
    /\ (pc = "injected" /\ prefixes = << >> /\ sink = "up") =>
           /\ redis_ops # << >>
           /\ hset_calls = << >>
           /\ \A i \in DOMAIN out : out[i] # "ERROR_NO_PREFIXES_TO_INJECT"

\* C9 as amended: export of zero records writes the empty object with a
\* warning; a bulk push of zero records prints the "no prefixes to inject"
\* error and returns without sending anything to the sink.
C9_EmptyPushIsSkipped ==
    /\ C9_ExportOfNothing
    /\ (pc = "injected" /\ prefixes = << >>) =>
           /\ out # << >> /\ out[Len(out)] = "ERROR_NO_PREFIXES_TO_INJECT"
           /\ redis_ops = << >>
           /\ hset_calls = << >>
           /\ exc = "none"

\* the empty table was exported, imported and pushed with the sink available
C9_Witness ==
    /\ pc = "injected" /\ sink = "up"
    /\ prefix_map = EmptyDict /\ json_file = JObject(<< >>) /\ prefixes = << >>
    /\ out = << "WARN_NO_PREFIXES_LOADED", "INFO_EXPORTED",
                "ERROR_NO_PREFIXES_TO_INJECT" >>

(***************************************************************************)
(* Properties of main (checked under SpecMain).                            *)
(***************************************************************************)
\* the operations the arguments ask for, in the documented order
Requested(a) ==
    (IF a.clean \in { "local", "all" } THEN << "clean_local" >> ELSE << >>)
    \o (IF a.clean \in { "redis", "all" } THEN << "clean_redis" >> ELSE << >>)
    \o (IF a.parsecsv THEN << "build", "export" >> ELSE << >>)
    \o (IF a.injectredis THEN << "import", "push" >> ELSE << >>)

NothingRequested(a) == ~a.parsecsv /\ ~a.injectredis /\ a.clean = "none"

\* C10: when main has ended, every requested operation has run exactly once
\* and no other, in the order clean-local, clean-store, build+export,
\* import+push; with build and push together the document imported is the
\* one the build step wrote, and the document written is still there; with
\* nothing requested main only prints the usage.
C10_RequestedOperationsRun ==
    pc \in { "done", "raised" } =>
        /\ calls = Requested(args)
        /\ args.parsecsv => json_file = ExportDocument(prefix_map)
        /\ (args.parsecsv /\ args.injectredis) =>
               prefixes = LoadPrefixesJson(ExportDocument(prefix_map)).items
        /\ NothingRequested(args) => out = << "USAGE" >>

\* On the runs of main that end without an exception the order holds.
MainOrderWhenNoException ==
    pc = "done" =>
        /\ calls = Requested(args)
        /\ args.parsecsv => json_file = ExportDocument(prefix_map)
        /\ (args.parsecsv /\ args.injectredis) =>
               prefixes = LoadPrefixesJson(ExportDocument(prefix_map)).items
        /\ NothingRequested(args) => out = << "USAGE" >>

(***************************************************************************)
(* Properties of the unavailable sink (checked under SpecMain).            *)
(***************************************************************************)
\* the notifications _get_redis_client prints when it returns no client
SinkNotifications ==
    { "ERROR_REDIS_HOST_NOT_CONFIGURED", "ERROR_REDIS_CONNECT" }

\* nothing but pings was sent to the sink
OnlyPings ==
    /\ hset_calls = << >>
    /\ \A i \in DOMAIN redis_ops : redis_ops[i].op = "ping"

\* a store step (store clean or bulk push) is among the requested operations
SinkStepRequested(a) == a.injectredis \/ a.clean \in { "redis", "all" }

\* C11: when the store client cannot be obtained, the store steps of main
\* return after a notification without a scan, a delete, a hash write or a
\* flush and without raising, and main has executed every requested
\* operation (local clean, build and export, document import) when it ends.
C11_SinkUnavailableRunsTheRest ==
    (sink # "up" /\ SinkStepRequested(args) /\ pc \in { "done", "raised" }) =>
        /\ OnlyPings
        /\ exc = "none" /\ pc = "done"
        /\ calls = Requested(args)
        /\ args.clean \in { "redis", "all" } =>
               \E i \in DOMAIN out : out[i] \in SinkNotifications
        /\ args.parsecsv => json_file = ExportDocument(prefix_map)
        /\ args.injectredis => prefixes = LoadPrefixesJson(json_file).items

\* Without a client the store steps send nothing but a ping and never raise;
\* the runs of main that end without an exception executed every requested
\* operation, left the notification, and hold the exported and the imported
\* document.
SinkUnavailableSkips ==
    sink # "up" =>
        /\ OnlyPings
        /\ exc # "AttributeError"
        /\ pc = "done" =>
               /\ calls = Requested(args)
               /\ args.clean \in { "redis", "all" } =>
                      \E i \in DOMAIN out : out[i] \in SinkNotifications
               /\ args.parsecsv => json_file = ExportDocument(prefix_map)
               /\ args.injectredis => prefixes = LoadPrefixesJson(json_file).items

\* the store is never changed without a client
SinkUnavailableKeepsStore == [][sink # "up" => store' = store]_vars

(***************************************************************************)
(* Properties of the document import (checked under SpecBridge).           *)
(***************************************************************************)
\* the error messages of load_prefixes_json
ImportErrors ==
    { "ERROR_JSON_NOT_FOUND", "ERROR_JSON_PARSE", "ERROR_JSON_NOT_OBJECT" }

\* the imported mapping holds every member name of the document once, each
\* with the value its last member denotes, whatever that value is
ImportedUnchanged ==
    /\ { prefixes[i].key : i \in DOMAIN prefixes }
           = { json_file.members[i].name : i \in DOMAIN json_file.members }
    /\ \A i, k \in DOMAIN prefixes : prefixes[i].key = prefixes[k].key => i = k
    /\ \A i \in DOMAIN prefixes :
           prefixes[i].value
               = JsonDecode(LastMember(json_file.members, prefixes[i].key))
    /\ out = << >> \/ out[Len(out)] \notin ImportErrors

\* the import ended with the empty mapping and an error message
ImportedNothing ==
    /\ prefixes = << >>
    /\ out # << >> /\ out[Len(out)] \in ImportErrors

\* C12: load_prefixes_json raises nothing; for a missing document, a
\* document that is no parsable JSON or one that is no top-level object it
\* returns the empty mapping with an error message, and otherwise the parsed
\* object unchanged, with no entry filtered or validated.
C12_ImportErrorStates ==
    pc \in { "loaded", "reloaded", "load_raised" } =>
        /\ exc = "none" /\ pc # "load_raised"
        /\ IF json_file.j = "object" THEN ImportedUnchanged ELSE ImportedNothing

\* For every document that is UTF-8 text the import behaves as stated.
ImportOfDecodableText ==
    (pc \in { "loaded", "reloaded", "load_raised" } /\ json_file # JNotUtf8) =>
        /\ exc = "none" /\ pc # "load_raised"
        /\ IF json_file.j = "object" THEN ImportedUnchanged ELSE ImportedNothing

\* an object with an entry that is no field map was imported as it is
ImportKeepsAnyEntry ==
    /\ pc = "loaded" /\ json_file = D_number
    /\ prefixes = << [ key |-> << "G" >>, value |-> PyInt(1) ] >>

(***************************************************************************)
(* Properties of the store clean (checked under SpecBridge).               *)
(***************************************************************************)
InNamespace(k) == IsPrefix(Namespace, k)

\* the commands a step added to those sent to the sink
NewOps == SubSeq(redis_ops', Len(redis_ops) + 1, Len(redis_ops'))

NoDeleteIssued == \A i \in DOMAIN NewOps : NewOps[i].op # "delete"

\* a call of clean_redis_prefixes with the sink available
CleanStepWithSink ==
    /\ sink = "up"
    /\ \/ pc = "idle" /\ pc' = "cleaned"
       \/ pc = "cleaned" /\ pc' = "cleaned_twice"

\* C13: after clean_redis_prefixes with an available sink no key beginning
\* with "rcldx:prefix:" remains, every other key is still there with its
\* value, no delete is issued when no key matches, and a second call
\* changes nothing.
C13_CleanFrame ==
    [][CleanStepWithSink =>
          /\ \A k \in DOMAIN store' : ~InNamespace(k)
          /\ \A k \in DOMAIN store :
                 ~InNamespace(k) => k \in DOMAIN store' /\ store'[k] = store[k]
          /\ DOMAIN store' \subseteq DOMAIN store
          /\ (\A k \in DOMAIN store : ~InNamespace(k)) => NoDeleteIssued
          /\ pc = "cleaned" => store' = store /\ NoDeleteIssued]_vars

\* a store with two keys of the namespace and three outside it was cleaned
\* twice: one delete of the two keys, the three others left
C13_Witness ==
    /\ pc = "cleaned_twice" /\ sink = "up"
    /\ DOMAIN store = { << "o", "t", "h", "e", "r" >>,
                        SubSeq(Namespace, 1, Len(Namespace) - 1),
                        << "x" >> \o Namespace }
    /\ Len(redis_ops) = 5
    /\ redis_ops[3] = Op("delete", { RedisKey(K_EA), Namespace })

(***************************************************************************)
(* Properties of cq_zones (checked under SpecBuild).                       *)
(***************************************************************************)
\* the cq_zones cell of data row r (None without such a column or cell)
CqCell(r) == CellOf(cols, "cq_zones", csv_file.fieldnames, csv_file.rows[r])

\* a cell that is missing, empty or whitespace only
BlankCell(cell) == cell = PyNone \/ Strip(cell.v) = << >>

\* absent for a blank cell, the trimmed text otherwise
CqZonesExpected(cell) == IF BlankCell(cell) THEN PyNone ELSE PyStr(Strip(cell.v))

\* absent, or a non-empty string without leading or trailing whitespace
CqZonesNormal(z) == z = PyNone \/ (z.v # << >> /\ Strip(z.v) = z.v)

\* C14: every record written for a row, base or alias, has cq_zones absent
\* when the column is missing or the cell is blank (empty or whitespace
\* only) and the trimmed cell text otherwise; so no record of the table has
\* the empty string or an untrimmed string as cq_zones.
C14_CqZonesNormalised ==
    /\ \A i \in DOMAIN writes :
           writes[i].info.cq_zones = CqZonesExpected(CqCell(writes[i].row))
    /\ \A k \in DOMAIN prefix_map : CqZonesNormal(prefix_map[k].cq_zones)

\* What holds of cq_zones: absent only for a missing or empty cell, the
\* trimmed text otherwise, which is the empty string for a cell of
\* whitespace only; a string is never parsed and never untrimmed.
CqZonesAsCoded ==
    \A i \in DOMAIN writes :
        writes[i].info.cq_zones
            = (IF CqCell(writes[i].row) \in { PyNone, PyStr(<< >>) }
               THEN PyNone
               ELSE PyStr(Strip(CqCell(writes[i].row).v)))

====
